---- MODULE Spec2Model ----
(***************************************************************************)
(* Status progression engine of the medical-waste tracker.                 *)
(*                                                                         *)
(* The status ledger (table status_events) is an insertion-ordered         *)
(* sequence of events.  advance_waste / advance_transport read the latest  *)
(* status of an entity, validate the transition against the entity's flow  *)
(* sequence and append one event; advance_transport then cascades a        *)
(* default advance to every waste package on the transport.                *)
(*                                                                         *)
(* datetime.utcnow() is the variable now; it never decreases and may stay  *)
(* the same between two calls (coarse clock, or a column that truncates    *)
(* sub-second precision).  The clock is observed only through the          *)
(* timestamps it gives to events, which the code only compares, so the     *)
(* instants are numbered by use: now moves to the next instant once the    *)
(* current one has stamped an event.  latest_status orders by the          *)
(* timestamp alone, so among events that share the greatest timestamp the  *)
(* row returned is any of them.                                            *)
(*                                                                         *)
(* Besides the engine the module holds the handlers built on it:           *)
(* bulk_update_status (SpecBulk), the assignment stage of status_scan, two *)
(* concurrent advance_waste calls split at the read of latest_status       *)
(* (SpecRace), and the incident scan of the dashboard over the planned     *)
(* routes, the GPS samples and the collected_time of the waste packages    *)
(* (SpecScan, its clock counted in hours).                                 *)
(* SpecApp is the application seen from its endpoints: upload_csv imports  *)
(* waste packages, the scan stage of status_scan advances a scanned waste  *)
(* or transport and stores an Incident row when the advance is refused,    *)
(* and its assignment stage puts a waste on a transport.                   *)
(* SpecWalk is the engine driven by default advances only, from entities   *)
(* without any event.                                                      *)
(***************************************************************************)
EXTENDS Integers, Sequences, FiniteSets, TLC

VARIABLES ledger, wot, now, last, waste_packages, transports, gps_points, inflight,
          incidents

vars == <<ledger, wot, now, last, waste_packages, transports, gps_points, inflight,
          incidents>>

\* The tables the status engine never writes (incidents is the table of the
\* persisted Incident rows), and the calls in progress.
others == <<waste_packages, transports, gps_points, inflight, incidents>>

----------------------------------------------------------------------------
(* Bounds of the model *)

MaxEvents == 3

Wastes == {"W1", "W2"}
Transports == {"T1"}
Users == {"u1"}

----------------------------------------------------------------------------
(* status_flow.py: the flow sequences *)

None == "None"

WASTE_FLOW ==
  <<"Collected", "On Truck", "In Transit", "Arrived Disposal Site",
    "In Disposal", "Completed">>

TRANSPORT_FLOW == <<"In Transit", "Arrived Disposal Site", "Completed">>

\* A status string that belongs to neither sequence (free-form request input).
Bogus == "Bogus"

\* The to_status values a caller passes: none, a middle and the last status of
\* the waste flow (the first and the last of the transport flow), and a string
\* outside both flows.
Targets == {None, "In Transit", "Completed", Bogus}

\* Every value a status column or a latest_status result can hold.
Statuses == {Bogus} \cup {WASTE_FLOW[i] : i \in 1..Len(WASTE_FLOW)}

StatusOrNone == Statuses \cup {None}

\* flow.index(s) is defined (no ValueError)
InFlow(flow, s) == \E i \in 1..Len(flow) : flow[i] = s

\* flow.index(s), zero-based
Index(flow, s) == (CHOOSE i \in 1..Len(flow) : flow[i] = s) - 1

FlowErr == "FlowError"
ValueErr == "ValueError"
IndexErr == "IndexError"
Ok == "ok"

\* _next with "except ValueError" only: the IndexError at the last element escapes.
NextLeavesIndexErrorUncaught(flow, current) ==
  IF current = None THEN [outcome |-> Ok, val |-> flow[1]]
  ELSE IF ~InFlow(flow, current) THEN [outcome |-> FlowErr, val |-> None]
  ELSE IF Index(flow, current) + 2 > Len(flow) THEN [outcome |-> IndexErr, val |-> None]
  ELSE [outcome |-> Ok, val |-> flow[Index(flow, current) + 2]]

\* _next returning flow[i] instead of flow[i+1].
NextOffByOne(flow, current) ==
  IF current = None THEN [outcome |-> Ok, val |-> flow[1]]
  ELSE IF ~InFlow(flow, current) THEN [outcome |-> FlowErr, val |-> None]
  ELSE [outcome |-> Ok, val |-> flow[Index(flow, current) + 1]]

\* _next(flow, current): the successor, or FlowError when current is the last
\* element (IndexError) or not in the flow (ValueError).
_next(flow, current) ==
  IF current = None THEN [outcome |-> Ok, val |-> flow[1]]
  ELSE IF ~InFlow(flow, current) THEN [outcome |-> FlowErr, val |-> None]
  ELSE IF Index(flow, current) + 2 > Len(flow) THEN [outcome |-> FlowErr, val |-> None]
  ELSE [outcome |-> Ok, val |-> flow[Index(flow, current) + 2]]

----------------------------------------------------------------------------
(* status_flow.py: latest_status *)

EventsOf(l, ref_type, ref_id) ==
  {n \in 1..Len(l) : l[n].ref_type = ref_type /\ l[n].ref_id = ref_id}

\* The rows .order_by(at.desc()).first() may return: those with the greatest at.
LatestRows(l, ref_type, ref_id) ==
  {n \in EventsOf(l, ref_type, ref_id) :
     \A m \in EventsOf(l, ref_type, ref_id) : l[m].at <= l[n].at}

\* The set of values latest_status(ref_type, ref_id) may return.
latest_status(l, ref_type, ref_id) ==
  IF EventsOf(l, ref_type, ref_id) = {} THEN {None}
  ELSE {l[n].status : n \in LatestRows(l, ref_type, ref_id)}

----------------------------------------------------------------------------
(* status_flow.py: advance_waste, advance_transport *)

StatusEvent(ref_type, ref_id, status, by_user, at) ==
  [ref_type |-> ref_type, ref_id |-> ref_id, status |-> status,
   by_user |-> by_user, at |-> at]

\* advance_waste applying the skip check whatever allow_skip is.
WasteDecisionNeverSkips(cur, allow_skip, to_status) ==
  LET explicit == allow_skip /\ to_status # None
      nx == _next(WASTE_FLOW, cur)
  IN IF ~explicit /\ nx.outcome # Ok THEN [outcome |-> nx.outcome, target |-> None]
     ELSE LET target == IF explicit THEN to_status ELSE nx.val
          IN IF cur = None THEN [outcome |-> Ok, target |-> target]
             ELSE IF ~InFlow(WASTE_FLOW, cur) \/ ~InFlow(WASTE_FLOW, target)
               THEN [outcome |-> ValueErr, target |-> None]
             ELSE IF Index(WASTE_FLOW, target) <= Index(WASTE_FLOW, cur)
               THEN [outcome |-> FlowErr, target |-> None]
             ELSE IF Index(WASTE_FLOW, target) - Index(WASTE_FLOW, cur) > 1
               THEN [outcome |-> FlowErr, target |-> None]
             ELSE [outcome |-> Ok, target |-> target]

\* Target selection and validation of advance_waste, given the status cur that
\* latest_status returned.  outcome is ok, FlowError or ValueError.
WasteDecision(cur, allow_skip, to_status) ==
  LET explicit == allow_skip /\ to_status # None
      nx == _next(WASTE_FLOW, cur)
  IN IF ~explicit /\ nx.outcome # Ok THEN [outcome |-> nx.outcome, target |-> None]
     ELSE LET target == IF explicit THEN to_status ELSE nx.val
          IN IF cur = None THEN [outcome |-> Ok, target |-> target]
             ELSE IF ~InFlow(WASTE_FLOW, cur) \/ ~InFlow(WASTE_FLOW, target)
               THEN [outcome |-> ValueErr, target |-> None]
             ELSE IF Index(WASTE_FLOW, target) <= Index(WASTE_FLOW, cur)
               THEN [outcome |-> FlowErr, target |-> None]
             ELSE IF Index(WASTE_FLOW, target) - Index(WASTE_FLOW, cur) > 1 /\ ~allow_skip
               THEN [outcome |-> FlowErr, target |-> None]
             ELSE [outcome |-> Ok, target |-> target]

\* advance_waste adding the event to the session before it validates.
AdvanceWasteAddsBeforeValidating(l, waste_id, user_id, allow_skip, to_status, cur, t) ==
  LET d == WasteDecision(cur, allow_skip, to_status)
  IN IF d.outcome = Ok
       THEN [outcome |-> Ok, ret |-> d.target,
             ledger |-> Append(l, StatusEvent("waste", waste_id, d.target, user_id, t))]
       ELSE [outcome |-> d.outcome, ret |-> None,
             ledger |-> Append(l, StatusEvent("waste", waste_id, cur, user_id, t))]

\* advance_waste overwriting the waste's latest row instead of inserting one.
AdvanceWasteUpdatesRow(l, waste_id, user_id, allow_skip, to_status, cur, t) ==
  LET d == WasteDecision(cur, allow_skip, to_status)
      rows == EventsOf(l, "waste", waste_id)
      ev == StatusEvent("waste", waste_id, d.target, user_id, t)
  IN IF d.outcome # Ok THEN [outcome |-> d.outcome, ret |-> None, ledger |-> l]
     ELSE IF rows = {} THEN [outcome |-> Ok, ret |-> d.target, ledger |-> Append(l, ev)]
     ELSE [outcome |-> Ok, ret |-> d.target,
           ledger |-> [l EXCEPT ![CHOOSE n \in rows : \A m \in rows : m <= n] = ev]]

\* advance_waste on ledger l at clock reading t, latest_status having returned cur.
advance_waste(l, waste_id, user_id, allow_skip, to_status, cur, t) ==
  LET d == WasteDecision(cur, allow_skip, to_status)
  IN IF d.outcome = Ok
       THEN [outcome |-> Ok, ret |-> d.target,
             ledger |-> Append(l, StatusEvent("waste", waste_id, d.target, user_id, t))]
       ELSE [outcome |-> d.outcome, ret |-> None, ledger |-> l]

TransportDecision(cur, allow_skip, to_status) ==
  LET explicit == allow_skip /\ to_status # None
      nx == _next(TRANSPORT_FLOW, cur)
  IN IF ~explicit /\ nx.outcome # Ok THEN [outcome |-> nx.outcome, target |-> None]
     ELSE LET target == IF explicit THEN to_status ELSE nx.val
          IN IF cur = None THEN [outcome |-> Ok, target |-> target]
             ELSE IF ~InFlow(TRANSPORT_FLOW, cur) \/ ~InFlow(TRANSPORT_FLOW, target)
               THEN [outcome |-> ValueErr, target |-> None]
             ELSE IF Index(TRANSPORT_FLOW, target) <= Index(TRANSPORT_FLOW, cur)
               THEN [outcome |-> FlowErr, target |-> None]
             ELSE IF Index(TRANSPORT_FLOW, target) - Index(TRANSPORT_FLOW, cur) > 1 /\ ~allow_skip
               THEN [outcome |-> FlowErr, target |-> None]
             ELSE [outcome |-> Ok, target |-> target]

\* The statuses of a transport that start the cascade.
CascadeStatuses ==
  {"On Truck", "In Transit", "Arrived Disposal Site", "In Disposal", "Completed"}

\* WasteOnTransport.query.filter_by(transport_id=...).all(): the waste ids.
WastesOn(w, transport_id) == {x \in Wastes : <<transport_id, x>> \in w}

\* The orders in which .all() may return the rows (no ORDER BY).
Orders(S) ==
  {o \in [1..Cardinality(S) -> S] : \A i, j \in 1..Cardinality(S) : o[i] = o[j] => i = j}

\* A cascade iteration that refuses a waste already past Collected.
CascadeStepRefusesStartedWaste(l, waste_id, user_id, cur, t) ==
  LET r == IF cur \in {None, "Collected"}
             THEN advance_waste(l, waste_id, user_id, FALSE, None, cur, t)
             ELSE [outcome |-> FlowErr, ret |-> None, ledger |-> l]
  IN [ledger |-> r.ledger,
      entry |-> [waste_id |-> waste_id, cur |-> cur, outcome |-> r.outcome, ret |-> r.ret]]

\* One try/except iteration of the cascade loop: the exception is swallowed.
CascadeStep(l, waste_id, user_id, cur, t) ==
  LET r == advance_waste(l, waste_id, user_id, FALSE, None, cur, t)
  IN [ledger |-> r.ledger,
      entry |-> [waste_id |-> waste_id, cur |-> cur, outcome |-> r.outcome, ret |-> r.ret]]

\* The cascade loop with the try/except around the loop: the first failure ends it.
RECURSIVE CascadeStopsAtFirstError(_, _, _, _, _)
CascadeStopsAtFirstError(l, order, user_id, pick, t) ==
  IF Len(order) = 0 THEN [ledger |-> l, log |-> <<>>]
  ELSE LET s == CascadeStep(l, order[1], user_id, pick[order[1]], t)
           rest == CascadeStopsAtFirstError(s.ledger, SubSeq(order, 2, Len(order)),
                                            user_id, pick, t)
       IN IF s.entry.outcome # Ok THEN [ledger |-> l, log |-> <<s.entry>>]
          ELSE [ledger |-> rest.ledger, log |-> <<s.entry>> \o rest.log]

\* The cascade loop over the rows in order; pick[w] is what latest_status
\* returns for w.  Yields the ledger and the log of attempts.
RECURSIVE Cascade(_, _, _, _, _)
Cascade(l, order, user_id, pick, t) ==
  IF Len(order) = 0 THEN [ledger |-> l, log |-> <<>>]
  ELSE LET s == CascadeStep(l, order[1], user_id, pick[order[1]], t)
           rest == Cascade(s.ledger, SubSeq(order, 2, Len(order)), user_id, pick, t)
       IN [ledger |-> rest.ledger, log |-> <<s.entry>> \o rest.log]

\* advance_transport running the cascade before it adds the transport's event.
AdvanceTransportCascadesFirst(l, w, transport_id, user_id, allow_skip, to_status, cur, order, pick, t) ==
  LET d == TransportDecision(cur, allow_skip, to_status)
      ev == StatusEvent("transport", transport_id, d.target, user_id, t)
  IN IF d.outcome # Ok
       THEN [outcome |-> d.outcome, ret |-> None, ledger |-> l, log |-> <<>>]
     ELSE IF d.target \in CascadeStatuses
       THEN LET c == Cascade(l, order, user_id, pick, t)
            IN [outcome |-> Ok, ret |-> d.target, ledger |-> Append(c.ledger, ev),
                log |-> c.log]
     ELSE [outcome |-> Ok, ret |-> d.target, ledger |-> Append(l, ev), log |-> <<>>]

\* advance_transport on ledger l; order and pick resolve the cascade's reads.
advance_transport(l, w, transport_id, user_id, allow_skip, to_status, cur, order, pick, t) ==
  LET d == TransportDecision(cur, allow_skip, to_status)
  IN IF d.outcome # Ok
       THEN [outcome |-> d.outcome, ret |-> None, ledger |-> l, log |-> <<>>]
     ELSE LET l1 == Append(l, StatusEvent("transport", transport_id, d.target, user_id, t))
          IN IF d.target \in CascadeStatuses
               THEN LET c == Cascade(l1, order, user_id, pick, t)
                    IN [outcome |-> Ok, ret |-> d.target, ledger |-> c.ledger, log |-> c.log]
               ELSE [outcome |-> Ok, ret |-> d.target, ledger |-> l1, log |-> <<>>]

----------------------------------------------------------------------------
(* The state machine *)

\* last records the latest call: its arguments, the status latest_status
\* returned to it (cur), how it ended, the ledger before it (pre) and, for a
\* transport, the wastes then on it (on) and the cascade's attempts (log).
NoCall ==
  [op |-> "none", id |-> None, allow_skip |-> FALSE, to_status |-> None,
   cur |-> None, outcome |-> None, ret |-> None, pre |-> <<>>, log |-> <<>>,
   on |-> {}, transport_id |-> None]

IntegrityErr == "IntegrityError"

\* Associations as left by a CSV import whose rows name a transport and no
\* collected_time (no initial event): both wastes on the transport, or one.
InitialWot == {{<<"T1", "W1">>, <<"T1", "W2">>}, {<<"T1", "W1">>}}

\* A collected_time column is the set of its value, empty when it is null; a
\* planned_route_geojson column without text is the record NoRoute.
NoTime == {}

NoRoute == [type |-> None, geometry |-> None, coordinates |-> <<>>]

\* The requests that may be in progress at the same time.
Requests == {"r1", "r2"}

Idle == [pc |-> "idle"]

\* The other tables after that import: no collected_time, transports without a
\* planned route, no GPS sample, no incident; no request in progress.
InitOthers ==
  /\ waste_packages = [x \in Wastes |-> NoTime]
  /\ transports = [t \in Transports |-> NoRoute]
  /\ gps_points = <<>>
  /\ inflight = [r \in Requests |-> Idle]
  /\ incidents = <<>>

Init ==
  /\ ledger = <<>>
  /\ wot \in InitialWot
  /\ now = 0
  /\ last = NoCall
  /\ InitOthers

\* Time passes: the next call reads a later clock value than every event so far.
Tick ==
  /\ \E n \in 1..Len(ledger) : ledger[n].at = now
  /\ now' = now + 1
  /\ UNCHANGED <<ledger, wot, last, others>>

\* A call advance_waste(waste_id, user_id, allow_skip, to_status), its arguments
\* drawn from ids, skips and targets, in a ledger of at most max events.
AdvanceWasteIn(ids, skips, targets, max) ==
  \E waste_id \in ids, user_id \in Users, allow_skip \in skips, to_status \in targets :
    \E cur \in latest_status(ledger, "waste", waste_id) :
      LET r == advance_waste(ledger, waste_id, user_id, allow_skip, to_status, cur, now)
      IN /\ Len(r.ledger) <= max
         /\ ledger' = r.ledger
         /\ last' = [op |-> "advance_waste", id |-> waste_id, allow_skip |-> allow_skip,
                     to_status |-> to_status, cur |-> cur, outcome |-> r.outcome,
                     ret |-> r.ret, pre |-> ledger, log |-> <<>>, on |-> {},
                     transport_id |-> None]
         /\ UNCHANGED <<wot, now, others>>

AdvanceWasteOf(ids) == AdvanceWasteIn(ids, BOOLEAN, Targets, MaxEvents)

AdvanceWaste == AdvanceWasteOf(Wastes)

\* The values latest_status may return to each cascade step.
Picks(l) ==
  LET ls == [x \in Wastes |-> latest_status(l, "waste", x)]
  IN {p \in [Wastes -> UNION {ls[x] : x \in Wastes}] : \A x \in Wastes : p[x] \in ls[x]}

\* A call advance_transport(transport_id, user_id, allow_skip, to_status), its
\* arguments drawn from skips and targets, in a ledger of at most max events.
AdvanceTransportIn(skips, targets, max) ==
  \E pick \in Picks(ledger), transport_id \in Transports :
    \E order \in Orders(WastesOn(wot, transport_id)),
       cur \in latest_status(ledger, "transport", transport_id) :
      \E user_id \in Users, allow_skip \in skips, to_status \in targets :
        LET r == advance_transport(ledger, wot, transport_id, user_id, allow_skip,
                                   to_status, cur, order, pick, now)
        IN /\ Len(r.ledger) <= max
           /\ ledger' = r.ledger
           /\ last' = [op |-> "advance_transport", id |-> transport_id,
                       allow_skip |-> allow_skip, to_status |-> to_status, cur |-> cur,
                       outcome |-> r.outcome, ret |-> r.ret, pre |-> ledger,
                       log |-> r.log, on |-> WastesOn(wot, transport_id),
                       transport_id |-> transport_id]
           /\ UNCHANGED <<wot, now, others>>

AdvanceTransport == AdvanceTransportIn(BOOLEAN, Targets, MaxEvents)

\* views.py status_scan, POST with transport_id (the assignment stage), by a
\* current_user drawn from users: the association row is added, advance_waste
\* is called with to_status "In Transit" and without allow_skip, and the
\* session is committed.  A duplicate row (uq_waste_on_transport) or a
\* FlowError, which this stage does not catch, ends the request before the
\* commit: nothing is stored.  The stage reads current_user.id and nothing else
\* of the user.
StatusScanAssignAs(ids, users, max) ==
  \E waste_id \in ids, transport_id \in DOMAIN transports, user \in users :
    \E cur \in latest_status(ledger, "waste", waste_id) :
      LET r == advance_waste(ledger, waste_id, user.user_id, FALSE, "In Transit", cur, now)
          dup == <<transport_id, waste_id>> \in wot
          stored == ~dup /\ r.outcome = Ok
      IN /\ Len(r.ledger) <= max
         /\ ledger' = IF stored THEN r.ledger ELSE ledger
         /\ wot' = IF stored THEN wot \cup {<<transport_id, waste_id>>} ELSE wot
         /\ last' = [op |-> "status_scan_assign", id |-> waste_id, allow_skip |-> FALSE,
                     to_status |-> "In Transit", cur |-> cur,
                     outcome |-> IF dup THEN IntegrityErr ELSE r.outcome,
                     ret |-> IF stored THEN r.ret ELSE None,
                     pre |-> ledger, log |-> <<>>, on |-> {}, transport_id |-> transport_id,
                     user |-> user]
         /\ UNCHANGED <<now, others>>

\* The assignment stage by a user of whom only the id matters.
StatusScanAssignIn(ids, max) ==
  StatusScanAssignAs(ids, {[user_id |-> user_id] : user_id \in Users}, max)

StatusScanAssignOf(ids) == StatusScanAssignIn(ids, MaxEvents)

StatusScanAssign == StatusScanAssignOf(Wastes)

Next ==
  \/ Tick
  \/ AdvanceWaste
  \/ AdvanceTransport
  \/ StatusScanAssign

Spec == Init /\ [][Next]_vars

\* The same machine with a single waste package, on the transport or not yet.
SingleWaste == {"W1"}

InitSingle ==
  /\ ledger = <<>>
  /\ wot \in {{<<"T1", "W1">>}, {}}
  /\ now = 0
  /\ last = NoCall
  /\ InitOthers

NextSingle ==
  \/ Tick
  \/ AdvanceWasteOf(SingleWaste)
  \/ AdvanceTransport
  \/ StatusScanAssignOf(SingleWaste)

SpecSingle == InitSingle /\ [][NextSingle]_vars

----------------------------------------------------------------------------
(* The machine after a CSV import, driven by default advances only *)

MaxCascadeEvents == 6

\* upload_csv of one row per waste, each with a collected_time: every waste
\* gets its initial Collected event (no by_user, at defaults to utcnow); the
\* row of W1 names the transport, the row of W2 names it or not.
InitCascade ==
  /\ ledger = <<StatusEvent("waste", "W1", "Collected", None, 0),
                StatusEvent("waste", "W2", "Collected", None, 0)>>
  /\ wot \in {{<<"T1", "W1">>}, {<<"T1", "W1">>, <<"T1", "W2">>}}
  /\ now = 0
  /\ last = NoCall
  /\ waste_packages = [x \in Wastes |-> {0}]
  /\ transports = [t \in Transports |-> NoRoute]
  /\ gps_points = <<>>
  /\ inflight = [r \in Requests |-> Idle]
  /\ incidents = <<>>

NextCascade ==
  \/ Tick
  \/ AdvanceWasteIn(Wastes, {FALSE}, {None}, MaxCascadeEvents)
  \/ AdvanceTransportIn({FALSE}, {None}, MaxCascadeEvents)
  \/ StatusScanAssignIn(Wastes, MaxCascadeEvents)

SpecCascade == InitCascade /\ [][NextCascade]_vars

----------------------------------------------------------------------------
(* Concurrent requests: advance_waste as its two database steps *)

\* The status a call validates against, given the one it read when it started
\* (stored) and the one the ledger holds when it writes (fresh), if the read and
\* the insert were one serialized step.
ReadUnderLock(stored, fresh) == fresh

\* The status a call validates against: cur, read once at the start of the
\* call and never read again before the insert.
ReadForWrite(stored, fresh) == stored

\* The to_status values of the concurrent calls: none (a default advance) and
\* the last status of the flow.
RaceTargets == {None, "Completed"}

\* Request r calls advance_waste and runs its first statement, the query of
\* latest_status.
BeginAdvanceWaste(r) ==
  /\ inflight[r] = Idle
  /\ \E waste_id \in SingleWaste, user_id \in Users, allow_skip \in {TRUE},
        to_status \in RaceTargets :
       \E cur \in latest_status(ledger, "waste", waste_id) :
         inflight' = [inflight EXCEPT ![r] =
                        [pc |-> "read", id |-> waste_id, user_id |-> user_id,
                         allow_skip |-> allow_skip, to_status |-> to_status, cur |-> cur]]
  /\ UNCHANGED <<ledger, wot, now, last, waste_packages, transports, gps_points,
                 incidents>>

\* Request r runs the rest of advance_waste (target, validation, insert) and
\* its caller commits.
FinishAdvanceWaste(r) ==
  /\ inflight[r] # Idle
  /\ \E fresh \in latest_status(ledger, "waste", inflight[r].id) :
       LET c == inflight[r]
           res == advance_waste(ledger, c.id, c.user_id, c.allow_skip, c.to_status,
                                ReadForWrite(c.cur, fresh), now)
       IN /\ Len(res.ledger) <= MaxEvents
          /\ ledger' = res.ledger
          /\ last' = [op |-> "advance_waste_concurrent", id |-> c.id,
                      allow_skip |-> c.allow_skip, to_status |-> c.to_status,
                      cur |-> c.cur, outcome |-> res.outcome, ret |-> res.ret,
                      pre |-> ledger, log |-> <<>>, on |-> {}, transport_id |-> None]
          /\ inflight' = [inflight EXCEPT ![r] = Idle]
  /\ UNCHANGED <<wot, now, waste_packages, transports, gps_points, incidents>>

NextRace ==
  \/ Tick
  \/ \E r \in Requests : BeginAdvanceWaste(r)
  \/ \E r \in Requests : FinishAdvanceWaste(r)

SpecRace == InitSingle /\ [][NextRace]_vars

----------------------------------------------------------------------------
(* views.py: bulk_update_status *)

MaxIds == 3

BulkWastes == {"W1", "W2", "W3"}

\* The action values of a request: the two the handler knows and another one.
BulkActions == {"advance", "set_status", "archive"}

\* The target_status values of a request: none, or a status (read only when
\* the action is set_status).
BulkTargets(action) == IF action = "set_status" THEN {None, "In Transit"} ELSE {None}

BulkOrder == <<"W1", "W2", "W3">>

\* The waste_ids lists of a request: the empty list, the first n ids (in turn,
\* starting over after the last one) for n up to MaxIds, and one id given twice.
IdLists ==
  {[i \in 1..n |-> BulkOrder[((i - 1) % Len(BulkOrder)) + 1]] : n \in 0..MaxIds}
  \cup {<<"W1", "W1">>}

NoTarget == "Target status not provided."

\* str(e) of the exception advance_waste raises for these arguments.
ErrorMessage(cur, allow_skip, to_status) ==
  LET explicit == allow_skip /\ to_status # None
  IN IF ~explicit /\ _next(WASTE_FLOW, cur).outcome # Ok
       THEN <<"Invalid transition from", cur>>
     ELSE IF WasteDecision(cur, allow_skip, to_status).outcome = ValueErr
       THEN <<"An unexpected error occurred:", "is not in list">>
     ELSE IF Index(WASTE_FLOW, IF explicit THEN to_status ELSE _next(WASTE_FLOW, cur).val)
               <= Index(WASTE_FLOW, cur)
       THEN <<"Cannot go backwards or repeat same status">>
     ELSE <<"Cannot skip statuses">>

\* One iteration of the loop over waste_ids.  called: advance_waste was called;
\* counted: updated_count was incremented; message: the entry written to
\* failed_updates, or None.
BulkStep(l, waste_id, user_id, action, target_status, cur, t) ==
  LET to_status == IF action = "set_status" THEN target_status ELSE None
      r == advance_waste(l, waste_id, user_id, FALSE, to_status, cur, t)
  IN IF action = "set_status" /\ target_status = None
       THEN [ledger |-> l,
             entry |-> [waste_id |-> waste_id, cur |-> cur, called |-> FALSE,
                        outcome |-> NoTarget, ret |-> None, counted |-> FALSE,
                        message |-> NoTarget]]
     ELSE IF action \notin {"advance", "set_status"}
       THEN [ledger |-> l,
             entry |-> [waste_id |-> waste_id, cur |-> cur, called |-> FALSE,
                        outcome |-> None, ret |-> None, counted |-> TRUE,
                        message |-> None]]
     ELSE [ledger |-> r.ledger,
           entry |-> [waste_id |-> waste_id, cur |-> cur, called |-> TRUE,
                      outcome |-> r.outcome, ret |-> r.ret, counted |-> r.outcome = Ok,
                      message |-> IF r.outcome = Ok THEN None
                                  ELSE ErrorMessage(cur, FALSE, to_status)]]

\* The loop with the try/except around it: the first exception ends the batch.
RECURSIVE BulkRunsAbortOnError(_, _, _, _, _, _)
BulkRunsAbortOnError(l, waste_ids, user_id, action, target_status, t) ==
  IF Len(waste_ids) = 0 THEN {[ledger |-> l, log |-> <<>>]}
  ELSE UNION {
         LET s == BulkStep(l, Head(waste_ids), user_id, action, target_status, cur, t)
         IN IF s.entry.called /\ s.entry.outcome # Ok
              THEN {[ledger |-> l, log |-> <<s.entry>>]}
              ELSE {[ledger |-> r.ledger, log |-> <<s.entry>> \o r.log] :
                      r \in BulkRunsAbortOnError(s.ledger, Tail(waste_ids), user_id, action,
                                                 target_status, t)}
         : cur \in latest_status(l, "waste", Head(waste_ids))}

\* The loop over waste_ids: the runs it can make, one per way the reads of
\* latest_status can turn out, each with its ledger and its log of iterations.
RECURSIVE BulkRuns(_, _, _, _, _, _)
BulkRuns(l, waste_ids, user_id, action, target_status, t) ==
  IF Len(waste_ids) = 0 THEN {[ledger |-> l, log |-> <<>>]}
  ELSE UNION {
         LET s == BulkStep(l, Head(waste_ids), user_id, action, target_status, cur, t)
         IN {[ledger |-> r.ledger, log |-> <<s.entry>> \o r.log] :
               r \in BulkRuns(s.ledger, Tail(waste_ids), user_id, action, target_status, t)}
         : cur \in latest_status(l, "waste", Head(waste_ids))}

\* updated_count after the loop.
UpdatedCount(log) == Cardinality({i \in 1..Len(log) : log[i].counted})

\* failed_updates after the loop: a dict, the last message of each failing id.
FailedUpdates(log) ==
  LET failing == {i \in 1..Len(log) : log[i].message # None}
  IN [x \in {log[i].waste_id : i \in failing} |->
        log[CHOOSE i \in failing :
              /\ log[i].waste_id = x
              /\ \A j \in failing : log[j].waste_id = x => j <= i].message]

\* The status reported when any update at all counts as a success.
BulkStatusIgnoresFailures(updated_count, n) ==
  IF updated_count > 0 THEN [status |-> "success", http |-> 200]
  ELSE [status |-> "error", http |-> 500]

\* The status and HTTP code of the response, n being len(waste_ids).
BulkStatus(updated_count, n) ==
  IF updated_count = n THEN [status |-> "success", http |-> 200]
  ELSE IF updated_count > 0 THEN [status |-> "partial_success", http |-> 200]
  ELSE [status |-> "error", http |-> 500]

\* A request POST /status/bulk_update.
BulkUpdateStatus ==
  \E waste_ids \in IdLists, action \in BulkActions, user_id \in Users :
   \E target_status \in BulkTargets(action) :
    \E run \in IF Len(waste_ids) = 0 THEN {[ledger |-> ledger, log |-> <<>>]}
                ELSE BulkRuns(ledger, waste_ids, user_id, action, target_status, now) :
      LET updated_count == UpdatedCount(run.log)
          response == IF Len(waste_ids) = 0 THEN [status |-> "error", http |-> 400]
                      ELSE BulkStatus(updated_count, Len(waste_ids))
      IN /\ Len(run.ledger) <= MaxEvents
         /\ ledger' = run.ledger
         /\ last' = [op |-> "bulk_update_status", id |-> None, allow_skip |-> FALSE,
                     to_status |-> target_status, cur |-> None, outcome |-> Ok,
                     ret |-> None, pre |-> ledger, log |-> run.log, on |-> {},
                     transport_id |-> None, waste_ids |-> waste_ids, action |-> action,
                     updated_count |-> updated_count,
                     failed_updates |-> FailedUpdates(run.log),
                     status |-> response.status, http |-> response.http]
         /\ UNCHANGED <<wot, now, others>>

\* Three waste packages imported without collected_time and without transport.
InitBulk ==
  /\ ledger = <<>>
  /\ wot = {}
  /\ now = 0
  /\ last = NoCall
  /\ waste_packages = [x \in BulkWastes |-> NoTime]
  /\ transports = [t \in Transports |-> NoRoute]
  /\ gps_points = <<>>
  /\ inflight = [r \in Requests |-> Idle]
  /\ incidents = <<>>

NextBulk ==
  \/ Tick
  \/ AdvanceWasteIn(BulkWastes, {TRUE}, RaceTargets, MaxEvents)
  \/ BulkUpdateStatus

SpecBulk == InitBulk /\ [][NextBulk]_vars

----------------------------------------------------------------------------
(* views.py status_scan, the scan stage, and upload_csv *)

Hospitals == {"H1", "H2"}

\* WastePackage.hospital_id and Transport.transport_by, columns no handler of
\* the module writes after the import.
HospitalOf(waste_id) == IF waste_id = "W1" THEN "H1" ELSE "H2"

TransportBy(transport_id) == IF transport_id = "T1" THEN "TB1" ELSE "TB2"

\* current_user of a request that passed require_roles("staff", "transport"):
\* a staff member of either hospital, or the driver of the transport T2.
ScanUsers ==
  {[user_id |-> "u1", role |-> "staff", hospital_id |-> h, transport_code |-> None] :
     h \in Hospitals}
  \cup {[user_id |-> "u1", role |-> "transport", hospital_id |-> None,
          transport_code |-> "TB2"]}

\* A scanned code that is neither a waste_id nor a transport_id.
UnknownCode == "X1"

Denied == "Permission denied"
AssignForm == "waste_to_assign"
NotFound == "not found"

\* str(e) of the FlowError advance_transport raises for these arguments.
TransportErrorMessage(cur, allow_skip, to_status) ==
  LET explicit == allow_skip /\ to_status # None
  IN IF ~explicit /\ _next(TRANSPORT_FLOW, cur).outcome # Ok
       THEN <<"Invalid transition from", cur>>
     ELSE IF Index(TRANSPORT_FLOW, IF explicit THEN to_status
                                   ELSE _next(TRANSPORT_FLOW, cur).val)
               <= Index(TRANSPORT_FLOW, cur)
       THEN <<"Cannot go backwards or repeat same status">>
     ELSE <<"Cannot skip statuses">>

\* The row the except FlowError branch adds.
InvalidUpdate(code, detail) ==
  [type |-> "invalid_update", ref_id |-> code, detail |-> detail, severity |-> "red"]

\* A response of the scan stage that changes nothing.
Quiet(l, outcome, http) ==
  [outcome |-> outcome, http |-> http, ret |-> None, ledger |-> l, log |-> <<>>,
   incidents |-> <<>>]

\* The end of the scan stage once the advance has returned r: commit and 200,
\* or the except FlowError branch that adds the Incident row of the scanned
\* code with detail str(e), commits and answers 400.  A ValueError is not
\* caught: the request fails (500) and nothing is committed.
ScanResponse(l, code, r, detail) ==
  IF r.outcome = Ok
    THEN [outcome |-> Ok, http |-> 200, ret |-> r.ret, ledger |-> r.ledger,
          log |-> IF "log" \in DOMAIN r THEN r.log ELSE <<>>, incidents |-> <<>>]
  ELSE IF r.outcome = FlowErr
    THEN [outcome |-> FlowErr, http |-> 400, ret |-> None, ledger |-> l, log |-> <<>>,
          incidents |-> <<InvalidUpdate(code, detail)>>]
  ELSE Quiet(l, r.outcome, 500)

\* The scan stage without the test of the Collected status: a waste package
\* that is still Collected is advanced like any other.
StatusScanWithoutGate(l, wp, tr, w, code, action, user, gate, cur, order, pick, t) ==
  IF code \in DOMAIN wp
    THEN IF user.role = "staff" /\ user.hospital_id # HospitalOf(code)
           THEN Quiet(l, Denied, 403)
         ELSE ScanResponse(l, code,
                           advance_waste(l, code, user.user_id, action # None, action,
                                         cur, t),
                           ErrorMessage(cur, action # None, action))
  ELSE IF code \in DOMAIN tr
    THEN IF /\ user.role = "transport"
            /\ user.transport_code # None
            /\ user.transport_code # TransportBy(code)
           THEN Quiet(l, Denied, 403)
         ELSE ScanResponse(l, code,
                           advance_transport(l, w, code, user.user_id, action # None,
                                             action, cur, order, pick, t),
                           TransportErrorMessage(cur, action # None, action))
  ELSE Quiet(l, NotFound, 200)

\* The scan stage of status_scan (POST without transport_id) for the scanned
\* code and the optional action, by current_user.  gate is what latest_status
\* returned to the handler, cur what it returned to the advance; order and pick
\* resolve the reads of a transport's cascade.  Yields the response, the
\* ledger and the Incident rows committed.
status_scan(l, wp, tr, w, code, action, user, gate, cur, order, pick, t) ==
  IF code \in DOMAIN wp
    THEN IF user.role = "staff" /\ user.hospital_id # HospitalOf(code)
           THEN Quiet(l, Denied, 403)
         ELSE IF gate = "Collected" THEN Quiet(l, AssignForm, 200)
         ELSE ScanResponse(l, code,
                           advance_waste(l, code, user.user_id, action # None, action,
                                         cur, t),
                           ErrorMessage(cur, action # None, action))
  ELSE IF code \in DOMAIN tr
    THEN IF /\ user.role = "transport"
            /\ user.transport_code # None
            /\ user.transport_code # TransportBy(code)
           THEN Quiet(l, Denied, 403)
         ELSE ScanResponse(l, code,
                           advance_transport(l, w, code, user.user_id, action # None,
                                             action, cur, order, pick, t),
                           TransportErrorMessage(cur, action # None, action))
  ELSE Quiet(l, NotFound, 200)

MaxIncidents == 1

\* The effect of a scan stage request whose handler yields r.
ScanCommit(code, action, user, gate, cur, r, max) ==
  /\ Len(r.ledger) <= max
  /\ Len(incidents) + Len(r.incidents) <= MaxIncidents
  /\ ledger' = r.ledger
  /\ incidents' = incidents \o r.incidents
  /\ last' = [op |-> "status_scan", id |-> code, allow_skip |-> action # None,
              to_status |-> action, cur |-> cur, outcome |-> r.outcome, ret |-> r.ret,
              pre |-> ledger, log |-> r.log, on |-> WastesOn(wot, code),
              transport_id |-> None, user |-> user, gate |-> gate, http |-> r.http]
  /\ UNCHANGED <<wot, now, waste_packages, transports, gps_points, inflight>>

\* A request POST /status/scan with a code (the scan stage).
StatusScanIn(codes, actions, max) ==
  \E code \in codes, action \in actions, user \in ScanUsers :
    \E gate \in latest_status(ledger, "waste", code),
       cur \in latest_status(ledger, IF code \in DOMAIN waste_packages THEN "waste"
                                     ELSE "transport", code),
       pick \in IF code \in DOMAIN transports THEN Picks(ledger)
                ELSE {CHOOSE p \in Picks(ledger) : TRUE},
       order \in Orders(WastesOn(wot, code)) :
      ScanCommit(code, action, user, gate, cur,
                 status_scan(ledger, waste_packages, transports, wot, code, action, user,
                             gate, cur, order, pick, now),
                 max)

\* The values of the form field action: absent, the last status, a text that
\* is no status.
ScanActions == {None, "Completed", Bogus}

\* The values of the columns transport_id and collected_time of an imported row.
CsvTransports == {None, "T1", "T2"}

CsvTimes == {NoTime, {0}}

CsvErrors == "errors"

\* A request POST /upload/csv with a file of one valid row.  A waste_id that
\* exists already is refused by validate_and_collect (400).  Otherwise the
\* waste package is inserted, its transport is created when it is new, the
\* association is added and, when the row has a collected_time, the initial
\* Collected event (no by_user, at defaults to utcnow).
UploadCsvOf(ids) ==
  \E waste_id \in ids, tr_id \in CsvTransports, collected_time \in CsvTimes :
    LET exists == waste_id \in DOMAIN waste_packages
        l1 == IF collected_time # NoTime
                THEN Append(ledger, StatusEvent("waste", waste_id, "Collected", None, now))
                ELSE ledger
    IN /\ Len(l1) <= MaxEvents
       /\ waste_packages' = IF exists THEN waste_packages
                            ELSE waste_packages @@ (waste_id :> collected_time)
       /\ transports' = IF exists \/ tr_id = None \/ tr_id \in DOMAIN transports
                          THEN transports
                          ELSE transports @@ (tr_id :> NoRoute)
       /\ wot' = IF exists \/ tr_id = None THEN wot ELSE wot \cup {<<tr_id, waste_id>>}
       /\ ledger' = IF exists THEN ledger ELSE l1
       /\ last' = [op |-> "upload_csv", id |-> waste_id, allow_skip |-> FALSE,
                   to_status |-> None, cur |-> None,
                   outcome |-> IF exists THEN CsvErrors ELSE Ok, ret |-> None,
                   pre |-> ledger, log |-> <<>>, on |-> {}, transport_id |-> tr_id]
       /\ UNCHANGED <<now, gps_points, inflight, incidents>>

UploadCsv == UploadCsvOf(Wastes)

\* A database without waste packages, the transport T2 left by an earlier
\* import.
InitApp ==
  /\ ledger = <<>>
  /\ wot = {}
  /\ now = 0
  /\ last = NoCall
  /\ waste_packages = <<>>
  /\ transports = [t \in {"T2"} |-> NoRoute]
  /\ gps_points = <<>>
  /\ inflight = [r \in Requests |-> Idle]
  /\ incidents = <<>>

NextApp ==
  \/ Tick
  \/ UploadCsvOf(SingleWaste)
  \/ StatusScanIn(SingleWaste \cup {"T1", UnknownCode}, ScanActions, MaxEvents)
  \/ StatusScanAssignAs(SingleWaste, ScanUsers, MaxEvents)

SpecApp == InitApp /\ [][NextApp]_vars

----------------------------------------------------------------------------
(* utils.py and views.py dashboard: the incident scan *)

\* Positions are points of one meridian, numbered every GridM metres, so that
\* the great-circle distance of two of them is GridM times their difference.
GridM == 50

haversine_m(a, b) == GridM * (IF a >= b THEN a - b ELSE b - a)

\* float("inf")
Infinity == 1000000000

\* planned_route_geojson is no text (None) or a GeoJSON object, kept as its
\* type, its geometry type when it is a Feature, and its coordinates.
route_points_from_geojson(route_geojson_text) ==
  IF route_geojson_text = NoRoute THEN <<>>
  ELSE IF route_geojson_text.type = "LineString" THEN route_geojson_text.coordinates
  ELSE IF route_geojson_text.type = "Feature" /\ route_geojson_text.geometry = "LineString"
    THEN route_geojson_text.coordinates
  ELSE <<>>

min_distance_to_polyline_m(pos, polyline) ==
  IF Len(polyline) = 0 THEN Infinity
  ELSE CHOOSE d \in {haversine_m(pos, polyline[i]) : i \in 1..Len(polyline)} :
         \A i \in 1..Len(polyline) : d <= haversine_m(pos, polyline[i])

\* timedelta(hours=24), the clock of the scan being counted in hours
overdue_threshold == 24

default_buffer_m == 150

Incident(type, ref_id, detail) == [type |-> type, ref_id |-> ref_id, detail |-> detail]

\* The loop over the GPS samples of a transport without its break: one
\* incident for every sample beyond the buffer.
RECURSIVE DeviationsOfEveryBreach(_, _, _)
DeviationsOfEveryBreach(transport_id, points, route) ==
  IF Len(points) = 0 THEN <<>>
  ELSE LET dmin == min_distance_to_polyline_m(Head(points).pos, route)
           rest == DeviationsOfEveryBreach(transport_id, Tail(points), route)
       IN IF dmin > default_buffer_m
            THEN <<Incident("route_deviation", transport_id, <<"deviation", dmin>>)>> \o rest
            ELSE rest

\* The loop over the GPS samples of a transport: the incident of the first
\* sample beyond the buffer, then break.
RECURSIVE Deviations(_, _, _)
Deviations(transport_id, points, route) ==
  IF Len(points) = 0 THEN <<>>
  ELSE LET dmin == min_distance_to_polyline_m(Head(points).pos, route)
       IN IF dmin > default_buffer_m
            THEN <<Incident("route_deviation", transport_id, <<"deviation", dmin>>)>>
            ELSE Deviations(transport_id, Tail(points), route)

\* GpsPoint.query.filter_by(transport_id=...): the rows of the transport.
PointsOf(g, transport_id) == {i \in 1..Len(g) : g[i].transport_id = transport_id}

\* The route deviation part without "if not route: continue": the samples of
\* a transport without route vertices are measured too.
RECURSIVE RouteDeviationsOfEmptyRoute(_, _, _, _)
RouteDeviationsOfEmptyRoute(tr, g, torder, porder) ==
  IF Len(torder) = 0 THEN <<>>
  ELSE LET t == Head(torder)
           route == route_points_from_geojson(tr[t])
           points == [i \in 1..Len(porder[t]) |-> g[porder[t][i]]]
       IN Deviations(t, points, route)
          \o RouteDeviationsOfEmptyRoute(tr, g, Tail(torder), porder)

\* The route deviation part of the scan: the transports in the order torder,
\* the samples of transport t in the order porder[t].
RECURSIVE RouteDeviations(_, _, _, _)
RouteDeviations(tr, g, torder, porder) ==
  IF Len(torder) = 0 THEN <<>>
  ELSE LET t == Head(torder)
           route == route_points_from_geojson(tr[t])
           points == [i \in 1..Len(porder[t]) |-> g[porder[t][i]]]
       IN (IF Len(route) = 0 THEN <<>> ELSE Deviations(t, points, route))
          \o RouteDeviations(tr, g, Tail(torder), porder)

\* The test with >= in place of >.
IsOverdueAtThreshold(e, collected_time, t) ==
  /\ e # None
  /\ e = "Collected"
  /\ t - (IF collected_time = NoTime THEN t ELSE CHOOSE c \in collected_time : TRUE)
       >= overdue_threshold

\* The test of the overdue part on one waste package, e being the status of
\* its latest event (None when it has no event) at clock reading t.
IsOverdue(e, collected_time, t) ==
  /\ e # None
  /\ e = "Collected"
  /\ t - (IF collected_time = NoTime THEN t ELSE CHOOSE c \in collected_time : TRUE)
       > overdue_threshold

\* The overdue part of the scan: the waste packages in the order worder,
\* pick[w] being the status of the latest event read for w.
RECURSIVE OverdueCollected(_, _, _, _)
OverdueCollected(wp, worder, pick, t) ==
  IF Len(worder) = 0 THEN <<>>
  ELSE (IF IsOverdue(pick[Head(worder)], wp[Head(worder)], t)
          THEN <<Incident("overdue_collected", Head(worder), ">24h without In Transit")>>
          ELSE <<>>)
       \o OverdueCollected(wp, Tail(worder), pick, t)

\* The orders in which the samples of each transport may be returned.
PointOrders(tr, g) ==
  {po \in [DOMAIN tr -> UNION {Orders(PointsOf(g, t)) : t \in DOMAIN tr}] :
     \A t \in DOMAIN tr : po[t] \in Orders(PointsOf(g, t))}

\* The scan storing the incidents it finds in the table of Incident rows.
DashboardPersistsIncidents ==
  \E torder \in Orders(DOMAIN transports), porder \in PointOrders(transports, gps_points),
     worder \in Orders(DOMAIN waste_packages), pick \in Picks(ledger) :
    LET found == RouteDeviations(transports, gps_points, torder, porder)
                 \o OverdueCollected(waste_packages, worder, pick, now)
    IN /\ last' = [op |-> "dashboard", id |-> None, allow_skip |-> FALSE,
                   to_status |-> None, cur |-> None, outcome |-> Ok, ret |-> None,
                   pre |-> ledger, log |-> <<>>, on |-> {}, transport_id |-> None,
                   reads |-> pick, at |-> now, incidents |-> found]
       /\ incidents' = IF Len(incidents) < MaxIncidents THEN incidents \o found
                       ELSE incidents
       /\ UNCHANGED <<ledger, wot, now, waste_packages, transports, gps_points, inflight>>

\* A request GET /dashboard: the incidents it computes.  It writes nothing.
Dashboard ==
  \E torder \in Orders(DOMAIN transports), porder \in PointOrders(transports, gps_points),
     worder \in Orders(DOMAIN waste_packages), pick \in Picks(ledger) :
    /\ last' = [op |-> "dashboard", id |-> None, allow_skip |-> FALSE, to_status |-> None,
                cur |-> None, outcome |-> Ok, ret |-> None, pre |-> ledger, log |-> <<>>,
                on |-> {}, transport_id |-> None, reads |-> pick, at |-> now,
                incidents |-> RouteDeviations(transports, gps_points, torder, porder)
                              \o OverdueCollected(waste_packages, worder, pick, now)]
    /\ UNCHANGED <<ledger, wot, now, others>>

MaxSamples == 2

MaxHour == 25

ScanTransports == {"T1", "T2"}

\* The planned routes: no text, a line of one vertex, a line of two, a line
\* without vertex, and a GeoJSON object that is not a line.
PlannedRoutes ==
  {NoRoute,
   [type |-> "LineString", geometry |-> None, coordinates |-> <<0>>],
   [type |-> "Feature", geometry |-> "LineString", coordinates |-> <<0, 8>>],
   [type |-> "LineString", geometry |-> None, coordinates |-> <<>>],
   [type |-> "Polygon", geometry |-> None, coordinates |-> <<0>>]}

\* GPS samples of T1 at 150 m, 200 m and 250 m from the vertex 0, and one of T2.
Samples ==
  {[transport_id |-> "T1", pos |-> 3], [transport_id |-> "T1", pos |-> 4],
   [transport_id |-> "T1", pos |-> 5], [transport_id |-> "T2", pos |-> 4]}

\* A database imported 23 hours after hour 0: each waste package has no
\* collected_time, or was collected at hour 0 and got its initial Collected
\* event at the import; T2 has a one-vertex route, T1 any of the routes.
InitScan ==
  /\ now = 23
  /\ waste_packages \in [Wastes -> {NoTime, {0}}]
  /\ ledger = (IF waste_packages["W1"] = NoTime THEN <<>>
                ELSE <<StatusEvent("waste", "W1", "Collected", None, 23)>>)
               \o (IF waste_packages["W2"] = NoTime THEN <<>>
                   ELSE <<StatusEvent("waste", "W2", "Collected", None, 23)>>)
  /\ wot = {}
  /\ last = NoCall
  /\ transports \in [ScanTransports -> PlannedRoutes]
  /\ transports["T2"] = [type |-> "LineString", geometry |-> None, coordinates |-> <<0>>]
  /\ gps_points \in UNION {[1..n -> Samples] : n \in 0..MaxSamples}
  /\ inflight = [r \in Requests |-> Idle]
  /\ incidents = <<>>

\* An hour passes.
HourPasses ==
  /\ now < MaxHour
  /\ now' = now + 1
  /\ UNCHANGED <<ledger, wot, last, others>>

NextScan ==
  \/ HourPasses
  \/ AdvanceWasteIn(SingleWaste, {FALSE}, {None}, MaxEvents)
  \/ Dashboard

SpecScan == InitScan /\ [][NextScan]_vars

\* The incident scan in a database that also holds persisted incidents: both
\* waste packages were collected at hour 0, T1 has no route or the one of T2,
\* and the staff of W1's hospital scan W1 asking for Collected, which is
\* refused once W1 is past it.
InitRescan ==
  /\ InitScan
  /\ waste_packages = [x \in Wastes |-> {0}]
  /\ transports["T1"] \in {NoRoute, transports["T2"]}

RefusedScan ==
  /\ StatusScanIn(SingleWaste, {"Collected"}, MaxEvents)
  /\ last'.user.hospital_id = HospitalOf("W1")

NextRescan ==
  \/ HourPasses
  \/ AdvanceWasteIn(SingleWaste, {FALSE}, {None}, MaxEvents)
  \/ Dashboard
  \/ RefusedScan

SpecRescan == InitRescan /\ [][NextRescan]_vars

----------------------------------------------------------------------------
(* Vocabulary of the properties *)

IsAdvance == last.op \in {"advance_waste", "advance_transport"}

KindOfLast == IF last.op = "advance_waste" THEN "waste" ELSE "transport"

FlowOfLast == IF last.op = "advance_waste" THEN WASTE_FLOW ELSE TRANSPORT_FLOW

\* The ledger before the last call is a prefix of the ledger.
PreIsPrefix ==
  /\ Len(last.pre) <= Len(ledger)
  /\ SubSeq(ledger, 1, Len(last.pre)) = last.pre

\* The rows the last call appended that belong to (ref_type, ref_id).
NewRowsOf(ref_type, ref_id) ==
  {n \in EventsOf(ledger, ref_type, ref_id) : n > Len(last.pre)}

\* The successor tables of section 4.1, written out.
WasteSuccessor ==
  [s \in {None, "Collected", "On Truck", "In Transit", "Arrived Disposal Site", "In Disposal"} |->
     CASE s = None -> "Collected"
       [] s = "Collected" -> "On Truck"
       [] s = "On Truck" -> "In Transit"
       [] s = "In Transit" -> "Arrived Disposal Site"
       [] s = "Arrived Disposal Site" -> "In Disposal"
       [] s = "In Disposal" -> "Completed"]

TransportSuccessor ==
  [s \in {None, "In Transit", "Arrived Disposal Site"} |->
     CASE s = None -> "In Transit"
       [] s = "In Transit" -> "Arrived Disposal Site"
       [] s = "Arrived Disposal Site" -> "Completed"]

SuccessorOfLast == IF last.op = "advance_waste" THEN WasteSuccessor ELSE TransportSuccessor

----------------------------------------------------------------------------
(* C1 *)

\* C1: when advance succeeds and returns S, the ledger before the call is kept,
\* exactly one new event of the entity is appended, it carries S and a timestamp
\* >= those of all prior events of the entity, and latest_status read right
\* after the call can only return S.
C1_AdvanceAppendsAndIsLatest ==
  (IsAdvance /\ last.outcome = Ok) =>
    /\ PreIsPrefix
    /\ \E n \in NewRowsOf(KindOfLast, last.id) :
         /\ NewRowsOf(KindOfLast, last.id) = {n}
         /\ ledger[n].status = last.ret
         /\ \A m \in EventsOf(last.pre, KindOfLast, last.id) : ledger[m].at <= ledger[n].at
    /\ latest_status(ledger, KindOfLast, last.id) = {last.ret}

----------------------------------------------------------------------------
(* C2 *)

\* C2: for every entity, any two of its events, taken in the order they were
\* recorded (which is their timestamp order), have strictly increasing
\* positions in the entity's flow: no status repeats, none goes back.
C2_StrictlyIncreasingWalk ==
  \A m, n \in 1..Len(ledger) :
    (m < n /\ ledger[m].ref_type = ledger[n].ref_type /\ ledger[m].ref_id = ledger[n].ref_id) =>
      LET flow == IF ledger[m].ref_type = "waste" THEN WASTE_FLOW ELSE TRANSPORT_FLOW
      IN /\ ledger[m].at <= ledger[n].at
         /\ InFlow(flow, ledger[m].status)
         /\ InFlow(flow, ledger[n].status)
         /\ Index(flow, ledger[m].status) < Index(flow, ledger[n].status)

----------------------------------------------------------------------------
(* C3 *)

\* C3: an advance called with an explicit to_status whose position is <= the
\* position of the current status fails with FlowError, whatever allow_skip is.
C3_BackwardOrRepeatTargetFails ==
  (/\ IsAdvance
   /\ last.to_status # None
   /\ InFlow(FlowOfLast, last.cur)
   /\ InFlow(FlowOfLast, last.to_status)
   /\ Index(FlowOfLast, last.to_status) <= Index(FlowOfLast, last.cur))
  => last.outcome = FlowErr

----------------------------------------------------------------------------
(* C4 *)

\* C4: an advance called with allow_skip false and an explicit to_status more
\* than one position after the current status fails with FlowError and appends
\* nothing.
C4_SkipWithoutAllowFails ==
  (/\ IsAdvance
   /\ ~last.allow_skip
   /\ last.to_status # None
   /\ InFlow(FlowOfLast, last.cur)
   /\ InFlow(FlowOfLast, last.to_status)
   /\ Index(FlowOfLast, last.to_status) - Index(FlowOfLast, last.cur) > 1)
  => (last.outcome = FlowErr /\ ledger = last.pre)

----------------------------------------------------------------------------
(* C5 *)

\* C5: an advance without explicit target on an entity whose current status is
\* the last element of its flow (Completed) fails with FlowError and appends
\* nothing.
C5_DefaultAtTerminalFails ==
  (IsAdvance /\ last.to_status = None /\ last.cur = "Completed")
  => (last.outcome = FlowErr /\ ledger = last.pre)

C5_Witness ==
  /\ last.op = "advance_waste"
  /\ last.to_status = None
  /\ last.cur = "Completed"
  /\ last.outcome = FlowErr
  /\ Len(ledger) > 0

----------------------------------------------------------------------------
(* C6 *)

\* C6: an advance without explicit target on an entity with no prior event, or
\* whose current status has a successor in the flow, succeeds and returns the
\* flow's first element, respectively the element right after the current
\* status, and appends it; whenever a default advance returns, it returns that.
C6_DefaultReturnsSuccessor ==
  (IsAdvance /\ last.to_status = None) =>
    /\ last.cur \in DOMAIN SuccessorOfLast =>
         /\ last.outcome = Ok
         /\ last.ret = SuccessorOfLast[last.cur]
         /\ Len(ledger) > Len(last.pre)
         /\ ledger[Len(last.pre) + 1] =
              StatusEvent(KindOfLast, last.id, SuccessorOfLast[last.cur],
                          ledger[Len(last.pre) + 1].by_user, ledger[Len(last.pre) + 1].at)
    /\ last.outcome = Ok => last.cur \in DOMAIN SuccessorOfLast

\* The second default advance of a waste that started unstarted returns On Truck.
C6_Witness ==
  /\ last.op = "advance_waste"
  /\ last.to_status = None
  /\ ~last.allow_skip
  /\ last.cur = "Collected"
  /\ last.ret = "On Truck"
  /\ Cardinality(EventsOf(last.pre, "waste", last.id)) = 1
  /\ Cardinality(EventsOf(ledger, "waste", last.id)) = 2

----------------------------------------------------------------------------
(* C7 *)

\* C7: whenever an advance fails with FlowError, the ledger after the call is
\* the ledger before the call.
C7_FlowErrorLeavesLedger ==
  (IsAdvance /\ last.outcome = FlowErr) => ledger = last.pre

C7_Witness ==
  /\ last.op = "advance_transport"
  /\ last.outcome = FlowErr
  /\ last.on # {}
  /\ Len(ledger) >= 2
  /\ ledger = last.pre

----------------------------------------------------------------------------
(* C8 *)

\* C8: the ledger is append-only: every step keeps every event already in the
\* ledger, at the same place and with the same fields.
C8_AppendOnly ==
  [][/\ Len(ledger') >= Len(ledger)
     /\ SubSeq(ledger', 1, Len(ledger)) = ledger]_vars

\* A transport advance with a cascade has appended to a ledger that held events.
C8_Witness ==
  /\ last.op = "advance_transport"
  /\ Len(last.pre) > 0
  /\ Len(ledger) >= Len(last.pre) + 2

----------------------------------------------------------------------------
(* C9 *)

\* The entries of the cascade log about waste x.
LogOf(x) == {i \in 1..Len(last.log) : last.log[i].waste_id = x}

\* C9: a transport advance whose own transition is valid records the
\* transport's event first and returns its status, whatever the cascade does:
\* every waste on the transport is attempted once, in spite of failures on
\* others, each successful attempt's event is in the ledger, and the call's
\* outcome is never an error of the cascade.
C9_CascadeIsBestEffort ==
  (last.op = "advance_transport") =>
    /\ last.outcome # Ok => (ledger = last.pre /\ last.log = <<>>)
    /\ last.outcome = Ok =>
         /\ PreIsPrefix
         /\ Len(ledger) > Len(last.pre)
         /\ ledger[Len(last.pre) + 1].ref_type = "transport"
         /\ ledger[Len(last.pre) + 1].ref_id = last.id
         /\ ledger[Len(last.pre) + 1].status = last.ret
         /\ last.ret \in CascadeStatuses =>
              \A x \in last.on :
                \E i \in LogOf(x) :
                  /\ LogOf(x) = {i}
                  /\ last.log[i].outcome = Ok =>
                       \E n \in NewRowsOf("waste", x) : ledger[n].status = last.log[i].ret
                  /\ last.log[i].outcome # Ok => NewRowsOf("waste", x) = {}

\* The first cascade attempt failed and the second one succeeded.
C9_Witness ==
  /\ last.op = "advance_transport"
  /\ last.outcome = Ok
  /\ Len(last.log) = 2
  /\ last.log[1].outcome = FlowErr
  /\ last.log[2].outcome = Ok
  /\ NewRowsOf("waste", last.log[2].waste_id) # {}

----------------------------------------------------------------------------
(* C10 *)

\* C10: a successful transport advance to a status of the transport flow makes
\* one default attempt per waste on the transport: each such waste that is not
\* at Completed gets exactly one new event, the successor of its current
\* status, and a waste that is not on the transport gets none.
C10_CascadeMovesEachWasteOneStep ==
  (last.op = "advance_transport" /\ last.outcome = Ok /\ InFlow(TRANSPORT_FLOW, last.ret)) =>
    /\ \A x \in last.on :
         \E i \in LogOf(x) :
           /\ LogOf(x) = {i}
           /\ last.log[i].cur # "Completed" =>
                /\ last.log[i].cur \in DOMAIN WasteSuccessor
                /\ \E n \in NewRowsOf("waste", x) :
                     /\ NewRowsOf("waste", x) = {n}
                     /\ ledger[n].status = WasteSuccessor[last.log[i].cur]
           /\ last.log[i].cur = "Completed" => NewRowsOf("waste", x) = {}
    /\ \A x \in Wastes \ last.on : NewRowsOf("waste", x) = {}

----------------------------------------------------------------------------
(* C11 *)

\* The last call advanced a transport to In Transit while it carried W1, read
\* as Collected by the cascade, and W2, read as On Truck.
C11_Scenario ==
  /\ last.op = "advance_transport"
  /\ last.outcome = Ok
  /\ last.ret = "In Transit"
  /\ last.on = {"W1", "W2"}
  /\ \E i \in LogOf("W1") : last.log[i].cur = "Collected"
  /\ \E i \in LogOf("W2") : last.log[i].cur = "On Truck"

\* The transport's own In Transit event is recorded, and W1 gets exactly one
\* new event, On Truck.
C11_TransportAndW1 ==
  /\ PreIsPrefix
  /\ ledger[Len(last.pre) + 1] =
       StatusEvent("transport", last.id, "In Transit",
                   ledger[Len(last.pre) + 1].by_user, ledger[Len(last.pre) + 1].at)
  /\ \E n \in NewRowsOf("waste", "W1") :
       /\ NewRowsOf("waste", "W1") = {n}
       /\ ledger[n].status = "On Truck"

----------------------------------------------------------------------------
(* C12 *)

\* The events of the entity of the last call carry pairwise distinct timestamps.
C12_DistinctTimestamps ==
  \A m, n \in EventsOf(ledger, "waste", last.id) : ledger[m].at = ledger[n].at => m = n

\* C12: nothing serializes the read of the latest status with the insert: a
\* default advance that read a status with a successor appends that successor,
\* whatever other calls appended for the entity since it read.
C12_WriteFollowsOwnRead ==
  (/\ last.op = "advance_waste_concurrent"
   /\ last.to_status = None
   /\ last.cur \in DOMAIN WasteSuccessor)
  => /\ last.outcome = Ok
     /\ ledger = Append(last.pre,
                         StatusEvent("waste", last.id, WasteSuccessor[last.cur],
                                     ledger[Len(ledger)].by_user, ledger[Len(ledger)].at))

\* Two calls read the same current status and both appended: the ledger holds
\* two events of one entity with the same status, at different timestamps.
C12_Witness ==
  /\ last.op = "advance_waste_concurrent"
  /\ last.outcome = Ok
  /\ last.to_status = None
  /\ C12_DistinctTimestamps
  /\ Len(ledger) = Len(last.pre) + 1
  /\ \E m \in EventsOf(last.pre, "waste", last.id) :
       /\ ledger[m].status = last.ret
       /\ ledger[m].at < ledger[Len(ledger)].at
       /\ last.cur \notin latest_status(last.pre, "waste", last.id)

----------------------------------------------------------------------------
(* C13 *)

IsBulk == last.op = "bulk_update_status" /\ Len(last.waste_ids) > 0

\* The positions of the list whose iteration recorded a failure.
FailedPositions == {i \in 1..Len(last.log) : last.log[i].message # None}

\* The positions of the list whose call of advance_waste succeeded.
SucceededPositions ==
  {i \in 1..Len(last.log) : last.log[i].called /\ last.log[i].outcome = Ok}

\* C13: a bulk update over a non-empty list reports success when no id failed,
\* partial_success when some but not all of them failed, and error when all
\* of them failed.
C13_StatusCountsFailures ==
  IsBulk =>
    LET n == Len(last.waste_ids)
        f == Cardinality(FailedPositions)
    IN /\ Len(last.log) = n
       /\ f = 0 => last.status = "success"
       /\ (0 < f /\ f < n) => last.status = "partial_success"
       /\ f = n => last.status = "error"

\* Three ids, the first one failing and the other two advancing.
C13_Witness ==
  /\ IsBulk
  /\ Len(last.waste_ids) = 3
  /\ FailedPositions = {1}
  /\ SucceededPositions = {2, 3}
  /\ last.status = "partial_success"

----------------------------------------------------------------------------
(* C14 *)

\* C14: for a list of distinct ids, updated_count is the number of ids whose
\* advance succeeded, and failed_updates holds exactly the ids whose advance
\* failed, each with a message.
C14_CountAndFailureMap ==
  (IsBulk /\ \A i, j \in 1..Len(last.waste_ids) :
               last.waste_ids[i] = last.waste_ids[j] => i = j)
  => /\ Len(last.log) = Len(last.waste_ids)
     /\ last.updated_count = Cardinality(SucceededPositions)
     /\ DOMAIN last.failed_updates =
          {last.waste_ids[i] : i \in (1..Len(last.log)) \ SucceededPositions}
     /\ \A x \in DOMAIN last.failed_updates : last.failed_updates[x] # None

----------------------------------------------------------------------------
(* C15 *)

\* The number of successful calls among the first i iterations.
SucceededUpTo(i) == Cardinality({j \in SucceededPositions : j <= i})

\* C15: the loop runs once for every id of the list, in order, whatever
\* failed before; with action advance, or set_status and a target, each
\* iteration calls advance_waste; and the events appended are exactly those of
\* the successful calls, in order.
C15_FailureDoesNotAbortBatch ==
  IsBulk =>
    /\ Len(last.log) = Len(last.waste_ids)
    /\ \A i \in 1..Len(last.log) :
         /\ last.log[i].waste_id = last.waste_ids[i]
         /\ (last.action = "advance" \/ (last.action = "set_status" /\ last.to_status # None))
              => last.log[i].called
    /\ PreIsPrefix
    /\ Len(ledger) = Len(last.pre) + Cardinality(SucceededPositions)
    /\ \A i \in SucceededPositions :
         /\ ledger[Len(last.pre) + SucceededUpTo(i)].ref_type = "waste"
         /\ ledger[Len(last.pre) + SucceededUpTo(i)].ref_id = last.log[i].waste_id
         /\ ledger[Len(last.pre) + SucceededUpTo(i)].status = last.log[i].ret

\* The first id failed with FlowError and a later one advanced.
C15_Witness ==
  /\ IsBulk
  /\ last.log[1].called
  /\ last.log[1].outcome = FlowErr
  /\ \E i \in SucceededPositions : i > 1
  /\ Len(ledger) > Len(last.pre)

----------------------------------------------------------------------------
(* C16 *)

\* C16: an advance with allow_skip and an explicit to_status of the entity's
\* flow, at any position after the current status, succeeds, returns to_status
\* and appends exactly one event of the entity, carrying to_status.
C16_SkipForwardSucceeds ==
  (/\ IsAdvance
   /\ last.allow_skip
   /\ last.to_status # None
   /\ InFlow(FlowOfLast, last.cur)
   /\ InFlow(FlowOfLast, last.to_status)
   /\ Index(FlowOfLast, last.to_status) > Index(FlowOfLast, last.cur))
  => /\ last.outcome = Ok
     /\ last.ret = last.to_status
     /\ PreIsPrefix
     /\ NewRowsOf(KindOfLast, last.id) = {Len(last.pre) + 1}
     /\ ledger[Len(last.pre) + 1].status = last.to_status

\* A waste at Collected was moved to Completed, five positions ahead.
C16_Witness ==
  /\ last.op = "advance_waste"
  /\ last.allow_skip
  /\ last.cur = "Collected"
  /\ last.to_status = "Completed"
  /\ last.ret = "Completed"
  /\ Len(ledger) = Len(last.pre) + 1
  /\ ledger[Len(ledger)].status = "Completed"

----------------------------------------------------------------------------
(* C17 *)

\* C17: whatever its arguments and the state of the entity, an advance either
\* returns a status or fails with FlowError.
C17_OnlyFlowErrorIsRaised ==
  IsAdvance => last.outcome \in {Ok, FlowErr}

----------------------------------------------------------------------------
(* C18 *)

\* The event of (ref_type, ref_id) with the greatest timestamp and, among those
\* with that timestamp, inserted last.
LastInsertedOfLatest(ref_type, ref_id) ==
  CHOOSE n \in LatestRows(ledger, ref_type, ref_id) :
    \A m \in LatestRows(ledger, ref_type, ref_id) : m <= n

\* C18: latest_status of a pair with no event is null; otherwise it is the
\* status of the pair's event with the greatest timestamp, the one inserted
\* last among those that share it.
C18_TieGoesToLastInserted ==
  \A ref_type \in {"waste", "transport"}, ref_id \in Wastes \cup Transports :
    IF EventsOf(ledger, ref_type, ref_id) = {}
      THEN latest_status(ledger, ref_type, ref_id) = {None}
      ELSE latest_status(ledger, ref_type, ref_id) =
             {ledger[LastInsertedOfLatest(ref_type, ref_id)].status}

----------------------------------------------------------------------------
(* C19 *)

\* The incidents of the last scan of the given type about ref_id.
IncidentsOf(type, ref_id) ==
  {i \in 1..Len(last.incidents) :
     last.incidents[i].type = type /\ last.incidents[i].ref_id = ref_id}

\* A GPS sample of transport t lies farther than the buffer from every vertex
\* of its route.
SomeSampleBeyondBuffer(t) ==
  \E i \in PointsOf(gps_points, t) :
    \A v \in 1..Len(transports[t].coordinates) :
      haversine_m(gps_points[i].pos, transports[t].coordinates[v]) > default_buffer_m

\* C19: in one scan, a transport with a non-empty planned route gets exactly
\* one route_deviation incident when at least one of its GPS samples is
\* farther than the buffer from the nearest vertex of the route, and none
\* otherwise.
C19_OneDeviationPerTransport ==
  (last.op = "dashboard") =>
    \A t \in DOMAIN transports :
      Len(route_points_from_geojson(transports[t])) > 0 =>
        Cardinality(IncidentsOf("route_deviation", t)) =
          IF SomeSampleBeyondBuffer(t) THEN 1 ELSE 0

\* Two samples of T1 are beyond the buffer and the scan reports T1 once.
C19_Witness ==
  /\ last.op = "dashboard"
  /\ Len(route_points_from_geojson(transports["T1"])) > 0
  /\ Cardinality({i \in PointsOf(gps_points, "T1") :
                    \A v \in 1..Len(transports["T1"].coordinates) :
                      haversine_m(gps_points[i].pos, transports["T1"].coordinates[v])
                        > default_buffer_m}) = 2
  /\ Cardinality(IncidentsOf("route_deviation", "T1")) = 1

----------------------------------------------------------------------------
(* C20 *)

\* C20: in one scan, a waste package gets exactly one overdue_collected
\* incident when the status the scan reads as its latest is Collected and more
\* than 24 hours have passed since its collected_time, and none otherwise: none
\* at 24 hours or less, none without collected_time, none at another status.
C20_OverdueIffCollectedOver24h ==
  (last.op = "dashboard") =>
    \A w \in DOMAIN waste_packages :
      Cardinality(IncidentsOf("overdue_collected", w)) =
        IF /\ last.reads[w] = "Collected"
           /\ \E c \in waste_packages[w] : last.at - c > 24
          THEN 1 ELSE 0

\* A waste package collected 25 hours ago and still Collected is reported once.
C20_Witness ==
  /\ last.op = "dashboard"
  /\ last.at = 25
  /\ waste_packages["W1"] = {0}
  /\ last.reads["W1"] = "Collected"
  /\ Cardinality(IncidentsOf("overdue_collected", "W1")) = 1

----------------------------------------------------------------------------
(* C21 *)

\* The step is a POST of the scan endpoint, either stage, that ended with the
\* advance raising FlowError.
ScanPostRaisesFlowError ==
  /\ last'.op \in {"status_scan", "status_scan_assign"}
  /\ last'.outcome = FlowErr
  /\ now' = now

\* str(e) of the FlowError of the call recorded in c.
ScanErrorDetail(c) ==
  IF c.id \in Wastes THEN ErrorMessage(c.cur, c.allow_skip, c.to_status)
  ELSE TransportErrorMessage(c.cur, c.allow_skip, c.to_status)

\* C21: whenever an advance made through a POST of the scan endpoint (the scan
\* stage or the assign-to-transport stage) raises FlowError, an invalid_update
\* incident with the scanned code and the error detail is recorded.
C21_FlowErrorRecordsIncident ==
  [][ScanPostRaisesFlowError =>
       incidents' = Append(incidents, InvalidUpdate(last'.id, ScanErrorDetail(last')))]_vars

\* The same for the scan stage alone, which the code does satisfy.
C21_ScanStageRecordsIncident ==
  [][ScanPostRaisesFlowError /\ last'.op = "status_scan" =>
       incidents' = Append(incidents, InvalidUpdate(last'.id, ScanErrorDetail(last')))]_vars

----------------------------------------------------------------------------
(* C22 *)

\* The step is an incident scan.
DashboardStep == last'.op = "dashboard" /\ now' = now

\* What an incident list reports: the pairs of a type and a ref_id.
Reported(found) == {<<found[i].type, found[i].ref_id>> : i \in 1..Len(found)}

\* C22: an incident scan leaves the ledger, the GPS samples, the transport
\* associations and the persisted Incident rows unchanged; a scan that follows
\* another with no operation in between and the same clock value, the
\* unchanged ledger answering its latest-event queries as before, reports the
\* same incidents: as many, for the same transports and waste packages,
\* in whatever order the rows of the other tables are returned (the detail of
\* a route deviation is the distance of the first sample beyond the buffer in
\* that order).
C22_ScanIsReadOnly ==
  [][DashboardStep =>
       /\ ledger' = ledger
       /\ gps_points' = gps_points
       /\ wot' = wot
       /\ incidents' = incidents
       /\ (last.op = "dashboard" /\ last.at = last'.at /\ last.reads = last'.reads =>
             /\ Reported(last'.incidents) = Reported(last.incidents)
             /\ Len(last'.incidents) = Len(last.incidents))]_vars

\* A scan that found a route deviation and an overdue waste package in a
\* database that holds a persisted incident.
C22_Witness ==
  /\ last.op = "dashboard"
  /\ Len(incidents) > 0
  /\ Len(ledger) > 0
  /\ <<"route_deviation", "T1">> \in Reported(last.incidents)
  /\ \E x \in Wastes : <<"overdue_collected", x>> \in Reported(last.incidents)

----------------------------------------------------------------------------
(* C23 *)

\* Transport t has nothing to detect: no planned route text, a route without
\* vertices, or no GPS sample.
NothingToDetect(t) ==
  \/ Len(route_points_from_geojson(transports[t])) = 0
  \/ PointsOf(gps_points, t) = {}

\* C23: in an incident scan, a transport with a missing or empty planned
\* route, or without GPS samples, gets no route_deviation incident, the scan
\* ends without error, and the other transports are scanned all the same: one
\* with a route and a sample beyond the buffer gets its incident.
C23_NothingToDetectIsNoError ==
  (last.op = "dashboard") =>
    /\ last.outcome = Ok
    /\ \A t \in DOMAIN transports :
         NothingToDetect(t) => IncidentsOf("route_deviation", t) = {}
    /\ \A u \in DOMAIN transports :
         ~NothingToDetect(u) /\ SomeSampleBeyondBuffer(u) =>
           IncidentsOf("route_deviation", u) # {}

\* T1 has GPS samples and no route vertex, T2 has left its route: the scan
\* reports T2 and not T1.
C23_Witness ==
  /\ last.op = "dashboard"
  /\ Len(route_points_from_geojson(transports["T1"])) = 0
  /\ PointsOf(gps_points, "T1") # {}
  /\ SomeSampleBeyondBuffer("T2")
  /\ IncidentsOf("route_deviation", "T1") = {}
  /\ IncidentsOf("route_deviation", "T2") # {}

----------------------------------------------------------------------------
(* C24 *)

\* The transports waste x is associated with.
TransportsOf(x) == {t \in DOMAIN transports : <<t, x>> \in wot}

\* C24: every waste package is associated with at most one transport.
C24_AtMostOneTransport ==
  \A x \in DOMAIN waste_packages : Cardinality(TransportsOf(x)) <= 1

----------------------------------------------------------------------------
(* C25 *)

AttemptSucceeded(entry) == entry.outcome = Ok

\* The cascade attempts of the last call that appended an event, in the order
\* they were made.
SuccessfulAttempts == SelectSeq(last.log, AttemptSucceeded)

\* C25: when a transport advance returns, the rows it appended are the
\* transport's own event followed by the events of the successful cascade
\* attempts, one per attempt and in the order of the attempts, and nothing
\* else; every attempt is about a different waste.
C25_CascadeIsSequential ==
  (last.op = "advance_transport" /\ last.outcome = Ok) =>
    /\ PreIsPrefix
    /\ Len(ledger) = Len(last.pre) + 1 + Len(SuccessfulAttempts)
    /\ ledger[Len(last.pre) + 1].ref_type = "transport"
    /\ ledger[Len(last.pre) + 1].ref_id = last.id
    /\ \A k \in 1..Len(SuccessfulAttempts) :
         /\ ledger[Len(last.pre) + 1 + k].ref_type = "waste"
         /\ ledger[Len(last.pre) + 1 + k].ref_id = SuccessfulAttempts[k].waste_id
         /\ ledger[Len(last.pre) + 1 + k].status = SuccessfulAttempts[k].ret
    /\ \A i, j \in 1..Len(last.log) :
         last.log[i].waste_id = last.log[j].waste_id => i = j

\* A transport advance whose cascade appended the events of two wastes.
C25_Witness ==
  /\ last.op = "advance_transport"
  /\ last.outcome = Ok
  /\ Len(SuccessfulAttempts) = 2
  /\ Len(ledger) = Len(last.pre) + 3

----------------------------------------------------------------------------
(* C26 *)

\* C26: every event of a waste package has a status of the waste sequence and
\* every event of a transport a status of the transport sequence, also after
\* an advance with allow_skip and an explicit target on an entity without
\* prior event.
C26_AppendedStatusIsInFlow ==
  \A n \in 1..Len(ledger) :
    InFlow(IF ledger[n].ref_type = "waste" THEN WASTE_FLOW ELSE TRANSPORT_FLOW,
           ledger[n].status)

----------------------------------------------------------------------------
(* C27 *)

\* The values of the column StatusEvent.status (status_enum).
status_enum ==
  {"Collected", "In Transit", "Arrived Disposal Site", "In Disposal", "Completed"}

\* C27: every event whose status is an element of the sequence of its entity
\* type has a status the StatusEvent record accepts.
C27_FlowStatusIsAccepted ==
  \A n \in 1..Len(ledger) :
    InFlow(IF ledger[n].ref_type = "waste" THEN WASTE_FLOW ELSE TRANSPORT_FLOW,
           ledger[n].status)
      => ledger[n].status \in status_enum

----------------------------------------------------------------------------
(* C28 *)

\* C28: when the assignment stage of the scan endpoint assigns a waste package
\* it read as Collected, the association is recorded and the status the
\* advance appended and returned, the waste's latest, is In Transit.
C28_AssignedWasteIsInTransit ==
  (last.op = "status_scan_assign" /\ last.cur = "Collected" /\ last.outcome = Ok) =>
    /\ <<last.transport_id, last.id>> \in wot
    /\ last.ret = "In Transit"
    /\ ledger[Len(ledger)].status = "In Transit"

----------------------------------------------------------------------------
(* C29 *)

\* C29: in a bulk update with action set_status and target status T, every
\* waste id counted as updated got an event of status T.
C29_SetStatusReachesTarget ==
  (IsBulk /\ last.action = "set_status" /\ last.to_status # None) =>
    \A i \in 1..Len(last.log) :
      last.log[i].counted =>
        /\ last.log[i].ret = last.to_status
        /\ \E n \in NewRowsOf("waste", last.log[i].waste_id) :
             ledger[n].status = last.to_status

----------------------------------------------------------------------------
(* C30 *)

\* C30: the number of events a bulk update request appended equals the
\* updated count it reports, whatever the action.
C30_AppendedEqualsUpdatedCount ==
  (last.op = "bulk_update_status") =>
    Len(ledger) - Len(last.pre) = last.updated_count

----------------------------------------------------------------------------
(* C31 *)

\* The entities that have an event in l.
Entities(l) == {<<l[n].ref_type, l[n].ref_id>> : n \in 1..Len(l)}

\* The latest status of section 4.2: the status of the event of the pair with
\* the greatest timestamp, the one inserted last among those that share it.
StatusOfLastInserted(l, ref_type, ref_id) ==
  l[CHOOSE n \in LatestRows(l, ref_type, ref_id) :
      \A m \in LatestRows(l, ref_type, ref_id) : m <= n].status

\* C31: once the latest status of an entity is Completed, no step appends an
\* event of that entity, whatever the call, its allow_skip and its to_status,
\* and its latest status is still Completed after the step.
C31_CompletedIsAbsorbing ==
  [][\A e \in Entities(ledger) :
       StatusOfLastInserted(ledger, e[1], e[2]) = "Completed" =>
         /\ EventsOf(ledger', e[1], e[2]) = EventsOf(ledger, e[1], e[2])
         /\ StatusOfLastInserted(ledger', e[1], e[2]) = "Completed"]_vars

\* What the code does guarantee: a call, a cascade attempt or a bulk iteration
\* whose own read of latest_status returned Completed appends nothing.
C31_ReadCompletedAppendsNothing ==
  /\ (last.op \in {"advance_waste", "advance_transport", "status_scan_assign"}
        /\ last.cur = "Completed") =>
       (last.outcome # Ok /\ ledger = last.pre)
  /\ \A i \in 1..Len(last.log) :
       last.log[i].cur = "Completed" => last.log[i].outcome # Ok

----------------------------------------------------------------------------
(* C32 *)

\* Room for the six events of a waste package and one event more.
MaxWalkEvents == 7

\* A waste package and a transport without any event, the waste on the
\* transport or not.
InitWalk ==
  /\ ledger = <<>>
  /\ wot \in {{}, {<<"T1", "W1">>}}
  /\ now = 0
  /\ last = NoCall
  /\ InitOthers

\* A single writer making default advances only.
NextWalk ==
  \/ Tick
  \/ AdvanceWasteIn(SingleWaste, {FALSE}, {None}, MaxWalkEvents)
  \/ AdvanceTransportIn({FALSE}, {None}, MaxWalkEvents)

SpecWalk == InitWalk /\ [][NextWalk]_vars

\* The statuses of the events of (ref_type, ref_id), in the order they were
\* appended: one per successful advance.
RECURSIVE StatusWalk(_, _, _)
StatusWalk(l, ref_type, ref_id) ==
  IF Len(l) = 0 THEN <<>>
  ELSE (IF Head(l).ref_type = ref_type /\ Head(l).ref_id = ref_id
          THEN <<Head(l).status>> ELSE <<>>)
       \o StatusWalk(Tail(l), ref_type, ref_id)

FlowOf(ref_type) == IF ref_type = "waste" THEN WASTE_FLOW ELSE TRANSPORT_FLOW

\* C32: under default advances only, the k-th successful advance of an entity
\* appends the k-th status of its sequence, so that the entity is at Completed
\* after exactly 6 (waste) or 3 (transport) successful advances and has
\* visited every status in order; the advance after that fails with FlowError
\* and appends nothing.
C32_DefaultWalkReachesCompleted ==
  /\ \A e \in Entities(ledger) :
       LET walk == StatusWalk(ledger, e[1], e[2])
       IN /\ Len(walk) <= Len(FlowOf(e[1]))
          /\ walk = SubSeq(FlowOf(e[1]), 1, Len(walk))
  /\ (IsAdvance /\ Len(StatusWalk(last.pre, KindOfLast, last.id)) = Len(FlowOfLast)) =>
       (last.outcome = FlowErr /\ ledger = last.pre)

----------------------------------------------------------------------------
(* C33 *)

\* The step is a scan stage request for a waste package that the handler read
\* (or, when it refused the user before reading, would have read) as Collected.
ScanOfCollectedWaste ==
  /\ last'.op = "status_scan"
  /\ now' = now
  /\ last'.id \in DOMAIN waste_packages
  /\ last'.gate = "Collected"

\* C33: a scan stage request for a waste package whose current status is
\* Collected, with or without an action, appends no event, records no
\* association and no incident, and answers with the transport selection (or
\* with the refusal of a staff member of another hospital): the waste is still
\* Collected after it.
C33_ScanOfCollectedWaitsForTransport ==
  [][ScanOfCollectedWaste =>
       /\ ledger' = ledger
       /\ wot' = wot
       /\ incidents' = incidents
       /\ last'.outcome \in {AssignForm, Denied}
       /\ "Collected" \in latest_status(ledger', "waste", last'.id)]_vars

\* A permitted user scanned a Collected waste package asking for Completed and
\* got the transport selection; nothing was appended.
C33_Witness ==
  /\ last.op = "status_scan"
  /\ last.id \in DOMAIN waste_packages
  /\ last.gate = "Collected"
  /\ last.cur = "Collected"
  /\ last.to_status = "Completed"
  /\ last.outcome = AssignForm
  /\ ledger = last.pre
  /\ latest_status(ledger, "waste", last.id) = {"Collected"}

----------------------------------------------------------------------------
(* C34 *)

\* The last call was a request of the scan endpoint, either stage, by a staff
\* user.
StaffRequest ==
  /\ last.op \in {"status_scan", "status_scan_assign"}
  /\ last.user.role = "staff"

\* The events the last call appended.
AppendedByLast == (Len(last.pre) + 1)..Len(ledger)

\* C34: a request by a staff user appends no event of a waste package that
\* belongs to another hospital than the user's.
C34_StaffAppendsOnlyOwnHospital ==
  StaffRequest =>
    \A n \in AppendedByLast :
      ledger[n].ref_type = "waste" => HospitalOf(ledger[n].ref_id) = last.user.hospital_id

\* What the code does guarantee: the scan stage, given the code of a waste
\* package by a staff user of another hospital, refuses and appends nothing.
C34_ScanOfWasteChecksHospital ==
  (/\ last.op = "status_scan"
   /\ last.id \in DOMAIN waste_packages
   /\ last.user.role = "staff"
   /\ last.user.hospital_id # HospitalOf(last.id)) =>
    (last.outcome = Denied /\ last.http = 403 /\ ledger = last.pre)

----------------------------------------------------------------------------
(* C35 *)

\* Waste x was advanced past Collected: one of its events carries a later
\* status of the waste sequence.
AdvancedPastCollected(x) ==
  \E n \in EventsOf(ledger, "waste", x) :
    /\ InFlow(WASTE_FLOW, ledger[n].status)
    /\ Index(WASTE_FLOW, ledger[n].status) > Index(WASTE_FLOW, "Collected")

\* C35: an incident scan reports no overdue_collected incident for a waste
\* package that was advanced past Collected, whatever its collected_time and
\* the time of the scan.
C35_NoOverdueOncePastCollected ==
  (last.op = "dashboard") =>
    \A x \in DOMAIN waste_packages :
      AdvancedPastCollected(x) => IncidentsOf("overdue_collected", x) = {}
====
